---- MODULE Spec2Model ----
(***************************************************************************)
(* Model of torchdr/affinity/knn_normalized.py (SelfTuningAffinity,        *)
(* MAGICAffinity) and torchdr/diffusion_embedding/phate.py (PHATE).        *)
(*                                                                         *)
(* Tensor entries are IEEE-like extended numbers: an exact rational, +inf, *)
(* -inf or nan.  exp is a fixed-point approximation.  Values of the log    *)
(* domain carry the logarithm of a partition sum symbolically, so that     *)
(* exponentiating a normalised log-affinity is an exact rational.          *)
(***************************************************************************)
EXTENDS Integers, Sequences, FiniteSets

\* ------------------------------------------------------------------ bounds
N == 3            \* number of data points (rows and columns of C)
MaxCoord == 2     \* data points are integers 0..MaxCoord on a line
Scale == 100      \* exp is computed to 1/Scale
MaxFits == 2      \* fit calls on one affinity object (SpecRefit)
MaxIterBound == 3 \* largest max_iter of the embedding fit
MaxCheck == 2     \* largest check_interval of the embedding fit

Idx == 1..N

\* ------------------------------------------------- extended real numbers
RECURSIVE Gcd(_, _)
Gcd(a, b) == IF b = 0 THEN a ELSE Gcd(b, a % b)

Abs(a) == IF a < 0 THEN -a ELSE a

\* The rational n/d (d > 0) in lowest terms.
Fin(n, d) ==
    LET g == Gcd(Abs(n), d)
    IN  [k |-> "fin", n |-> n \div g, d |-> d \div g]

PInf == [k |-> "inf", n |-> 1, d |-> 0]
NInf == [k |-> "ninf", n |-> -1, d |-> 0]
NaN == [k |-> "nan", n |-> 0, d |-> 0]
Zero == Fin(0, 1)
One == Fin(1, 1)

IsFin(a) == a.k = "fin"
IsZero(a) == a.k = "fin" /\ a.n = 0
IsPos(a) == a.k = "inf" \/ (a.k = "fin" /\ a.n > 0)
IsNeg(a) == a.k = "ninf" \/ (a.k = "fin" /\ a.n < 0)

\* a <= b on non-nan values (the order a partial sort uses).
Leq(a, b) ==
    CASE a.k = "ninf" \/ b.k = "inf" -> TRUE
      [] a.k = "inf" \/ b.k = "ninf" -> FALSE
      [] OTHER -> a.n * b.d <= b.n * a.d

Lt(a, b) == Leq(a, b) /\ a # b

Neg(a) ==
    CASE a.k = "fin" -> Fin(-a.n, a.d)
      [] a.k = "inf" -> NInf
      [] a.k = "ninf" -> PInf
      [] OTHER -> NaN

Add(a, b) ==
    CASE a.k = "nan" \/ b.k = "nan" -> NaN
      [] a.k = "fin" /\ b.k = "fin" -> Fin(a.n * b.d + b.n * a.d, a.d * b.d)
      [] a.k = "fin" -> b
      [] b.k = "fin" -> a
      [] a.k = b.k -> a
      [] OTHER -> NaN

Mul(a, b) ==
    CASE a.k = "nan" \/ b.k = "nan" -> NaN
      [] a.k = "fin" /\ b.k = "fin" -> Fin(a.n * b.n, a.d * b.d)
      [] IsZero(a) \/ IsZero(b) -> NaN
      [] IsPos(a) = IsPos(b) -> PInf
      [] OTHER -> NInf

\* IEEE division a / b.  A zero divisor is +0 (bandwidths and sums of
\* non-negative terms are never -0).
Div(a, b) ==
    CASE a.k = "nan" \/ b.k = "nan" -> NaN
      [] ~IsFin(a) /\ ~IsFin(b) -> NaN
      [] ~IsFin(a) -> IF IsNeg(b) THEN Neg(a) ELSE a
      [] ~IsFin(b) -> Zero
      [] IsZero(b) -> IF IsZero(a) THEN NaN ELSE IF a.n > 0 THEN PInf ELSE NInf
      [] b.n > 0 -> Fin(a.n * b.d, a.d * b.n)
      [] OTHER -> Fin(-(a.n * b.d), a.d * (-b.n))

\* exp(-p/r) for p >= 0, r > 0, to 1/Scale: the truncation of
\* 1 / (1 + x + x^2/2) at x = p/r.  It is 1 at 0, decreasing, and
\* underflows to 0 for large arguments.
ExpFix(p, r) == Fin((Scale * 2 * r * r) \div (2 * r * r + 2 * p * r + p * p), Scale)

Exp(a) ==
    CASE a.k = "nan" -> NaN
      [] a.k = "inf" -> PInf
      [] a.k = "ninf" -> Zero
      [] a.n <= 0 -> ExpFix(-a.n, a.d)
      [] OTHER -> Div(One, ExpFix(a.n, a.d))

RECURSIVE SumSeq(_)
SumSeq(s) == IF s = <<>> THEN Zero ELSE Add(s[1], SumSeq(Tail(s)))

\* ------------------------------------------------------ log-domain values
\* LFin(q, s) stands for q - log(s), q a rational and s a positive rational.
LFin(q, s) == [k |-> "fin", n |-> q.n, d |-> q.d, sn |-> s.n, sd |-> s.d]
LPInf == [k |-> "inf", n |-> 1, d |-> 0, sn |-> 1, sd |-> 1]
LNInf == [k |-> "ninf", n |-> -1, d |-> 0, sn |-> 1, sd |-> 1]
LNaN == [k |-> "nan", n |-> 0, d |-> 0, sn |-> 1, sd |-> 1]

\* An extended number as a log-domain value.
ToLog(a) ==
    CASE a.k = "fin" -> LFin(a, One)
      [] a.k = "inf" -> LPInf
      [] a.k = "ninf" -> LNInf
      [] OTHER -> LNaN

LQ(a) == Fin(a.n, a.d)
LS(a) == Fin(a.sn, a.sd)

\* log(t) of a non-negative extended number t.
LogOf(t) ==
    CASE t.k = "nan" -> LNaN
      [] t.k = "inf" -> LPInf
      [] IsZero(t) -> LNInf
      [] OTHER -> LFin(Zero, Div(One, t))

LSub(a, b) ==
    CASE a.k = "nan" \/ b.k = "nan" -> LNaN
      [] a.k = "fin" /\ b.k = "fin" -> LFin(Add(LQ(a), Neg(LQ(b))), Div(LS(a), LS(b)))
      [] a.k = "fin" -> IF b.k = "inf" THEN LNInf ELSE LPInf
      [] b.k = "fin" -> a
      [] a.k = b.k -> LNaN
      [] OTHER -> a

LExp(a) ==
    CASE a.k = "fin" -> Div(Exp(LQ(a)), LS(a))
      [] a.k = "inf" -> PInf
      [] a.k = "ninf" -> Zero
      [] OTHER -> NaN

\* ------------------------------------------------------ tensor helpers
Row(M, i) == M[i]
Col(M, j) == [i \in Idx |-> M[i][j]]

\* The index of a least element of a non-empty sequence of non-nan values.
ArgMin(s) == CHOOSE i \in DOMAIN s : \A j \in DOMAIN s : Leq(s[i], s[j])

Remove(s, i) == [j \in 1..(Len(s) - 1) |-> IF j < i THEN s[j] ELSE s[j + 1]]

RECURSIVE SortAsc(_)
SortAsc(s) ==
    IF s = <<>> THEN <<>>
    ELSE LET m == ArgMin(s) IN <<s[m]>> \o SortAsc(Remove(s, m))

NumFinite(s) == Cardinality({j \in DOMAIN s : IsFin(s[j])})

\* ------------------------------------------------------- collaborators
\* Pairwise squared euclidean distances of the points X (integers on a
\* line); with zero_diag the diagonal is masked with +inf before any kernel
\* or normalisation step.
_distance_matrix(X, zero_diag) ==
    [i \in Idx |-> [j \in Idx |->
        IF zero_diag /\ i = j THEN PInf
        ELSE Fin((X[i] - X[j]) * (X[i] - X[j]), 1)]]

\* kmin(C, k, dim=1): per row the k smallest values in ascending order.
\* err: k <= 0 or k greater than the neighbours available in some row.
kmin(C, k) ==
    IF k <= 0 \/ k > N \/ \E i \in Idx : k > NumFinite(C[i])
    THEN [err |-> TRUE, values |-> <<>>]
    ELSE [err |-> FALSE,
          values |-> [i \in Idx |-> SubSeq(SortAsc(C[i]), 1, k)]]

\* sum_red(P, dim=1): the row sums, kept as a column.
sum_red(P) == [i \in Idx |-> SumSeq(P[i])]

matrix_transpose(P) == [i \in Idx |-> [j \in Idx |-> P[j][i]]]

\* logsumexp_red(logA, dim): log of the sum of exp over the axis dim
\* ("0", "1"), or over both axes ("joint", dim = (0, 1)).
logsumexp_red(logA, dim) ==
    LET E == [i \in Idx |-> [j \in Idx |-> LExp(logA[i][j])]]
    IN  CASE dim = "1" -> [i \in Idx |-> LogOf(SumSeq(Row(E, i)))]
          [] dim = "0" -> [j \in Idx |-> LogOf(SumSeq(Col(E, j)))]
          [] OTHER -> <<LogOf(SumSeq([i \in Idx |-> SumSeq(Row(E, i))]))>>

\* ---------------------------------------------------------- the kernels
_log_SelfTuning(C, sigma) ==
    [i \in Idx |-> [j \in Idx |->
        ToLog(Div(Neg(C[i][j]), Mul(sigma[i], sigma[j])))]]

_log_MAGIC(C, sigma) ==
    [i \in Idx |-> [j \in Idx |-> Div(Neg(C[i][j]), sigma[i])]]

\* k=self.K: the K handed to kmin.
KClamped(o) == IF o.K < 1 THEN 1 ELSE IF o.K > N - 1 THEN N - 1 ELSE o.K
kmin_k(o) == o.K

\* minK_values[:, -1]: the last of the K smallest values of each row.
FirstColumn(values) == [i \in Idx |-> values[i][1]]
LastColumn(values) == [i \in Idx |-> values[i][Len(values[i])]]

\* log_affinity_matrix - self.log_normalization_ (broadcast along dim).
SubtractNormalization(logA, ln, dim) ==
    [i \in Idx |-> [j \in Idx |->
        LSub(logA[i][j],
             CASE dim = "1" -> ln[i] [] dim = "0" -> ln[j] [] OTHER -> ln[1])]]

\* (affinity_matrix + matrix_transpose(affinity_matrix)) / 2
Symmetrize(P) ==
    LET Pt == matrix_transpose(P)
    IN  [i \in Idx |-> [j \in Idx |-> Div(Add(P[i][j], Pt[i][j]), Fin(2, 1))]]

\* affinity_matrix / sum_red(affinity_matrix, dim=1)
ColumnNormalize(P) ==
    LET s == sum_red(P) IN [i \in Idx |-> [j \in Idx |-> Div(P[i][j], s[j])]]
RowNormalize(P) ==
    LET s == sum_red(P) IN [i \in Idx |-> [j \in Idx |-> Div(P[i][j], s[i])]]

\* ------------------------------------------------------------- state
VARIABLES
    obj,                  \* the affinity object's configuration
    sigma_,               \* fitted attribute, <<>> until the first fit sets it
    log_normalization_,   \* fitted attribute, <<>> until a fit sets it
    log_affinity_matrix,  \* what SelfTuningAffinity's last fit returned
    affinity_matrix,      \* what MAGICAffinity's last fit returned
    status,               \* "none", "ok" or "InvalidKError": how the last fit ended
    lastC,                \* the distance matrix of the last fit
    lastDim,              \* the normalization_dim the last fit ran with
    nfits,                \* fit calls made on the object
    pc,                   \* PHATE.__init__: the statement reached
    args,                 \* PHATE.__init__: the call's arguments
    self,                 \* PHATE: the attributes set so far
    locals,               \* PHATE.__init__: affinity_in, affinity_out, loss_fn
    matcher,              \* what AffinityMatcher.__init__ received, <<>> before
    fitState,             \* the embedding fit's state
    n_iter,               \* iterations the embedding fit has made
    lastLoss,             \* "finite" or "nonfinite": the last iteration's loss
    distCalls             \* distance computations made for the embedding

affVars == <<obj, sigma_, log_normalization_, log_affinity_matrix,
             affinity_matrix, status, lastC, lastDim, nfits>>
phateVars == <<pc, args, self, locals, matcher, fitState, n_iter, lastLoss,
               distCalls>>
vars == <<affVars, phateVars>>

Dims == {"none", "0", "1", "joint"}
Datasets == [Idx -> 0..MaxCoord]

\* SelfTuningAffinity.__init__ / MAGICAffinity.__init__
Configs ==
    [variant : {"SelfTuning"}, K : -1..(N + 1), normalization_dim : Dims,
     zero_diag : BOOLEAN]
    \cup
    [variant : {"MAGIC"}, K : -1..(N + 1), normalization_dim : {"none"},
     zero_diag : BOOLEAN]

\* SelfTuningAffinity._compute_log_affinity: the attributes and the return
\* value after a call on X, from the attributes before it.
SelfTuning_compute_log_affinity(o, X, ln_before, sigma_before) ==
    LET C == _distance_matrix(X, o.zero_diag)
        km == kmin(C, kmin_k(o))
        sigma == LastColumn(km.values)
        logA == _log_SelfTuning(C, sigma)
        ln == logsumexp_red(logA, o.normalization_dim)
    IN  IF km.err
        THEN [status |-> "InvalidKError", C |-> C, sigma_ |-> sigma_before,
              log_normalization_ |-> ln_before, ret |-> <<>>]
        ELSE IF o.normalization_dim # "none"
        THEN [status |-> "ok", C |-> C, sigma_ |-> sigma,
              log_normalization_ |-> ln,
              ret |-> SubtractNormalization(logA, ln, o.normalization_dim)]
        ELSE [status |-> "ok", C |-> C, sigma_ |-> sigma,
              log_normalization_ |-> ln_before, ret |-> logA]

\* MAGICAffinity._compute_affinity
MAGIC_compute_affinity(o, X, sigma_before) ==
    LET C == _distance_matrix(X, o.zero_diag)
        km == kmin(C, kmin_k(o))
        sigma == LastColumn(km.values)
        P == [i \in Idx |-> [j \in Idx |-> Exp(_log_MAGIC(C, sigma)[i][j])]]
    IN  IF km.err
        THEN [status |-> "InvalidKError", C |-> C, sigma_ |-> sigma_before,
              ret |-> <<>>]
        ELSE [status |-> "ok", C |-> C, sigma_ |-> sigma,
              ret |-> RowNormalize(Symmetrize(P))]

FitSelfTuning(X) ==
    LET r == SelfTuning_compute_log_affinity(obj, X, log_normalization_, sigma_)
    IN  /\ obj.variant = "SelfTuning"
        /\ status' = r.status
        /\ lastC' = r.C
        /\ lastDim' = obj.normalization_dim
        /\ sigma_' = r.sigma_
        /\ log_normalization_' = r.log_normalization_
        /\ log_affinity_matrix' = r.ret
        /\ nfits' = nfits + 1
        /\ UNCHANGED <<obj, affinity_matrix, phateVars>>

FitMAGIC(X) ==
    LET r == MAGIC_compute_affinity(obj, X, sigma_)
    IN  /\ obj.variant = "MAGIC"
        /\ status' = r.status
        /\ lastC' = r.C
        /\ lastDim' = obj.normalization_dim
        /\ sigma_' = r.sigma_
        /\ affinity_matrix' = r.ret
        /\ nfits' = nfits + 1
        /\ UNCHANGED <<obj, log_normalization_, log_affinity_matrix, phateVars>>

\* The first fit of a freshly constructed object.
Fit ==
    /\ nfits = 0
    /\ \E X \in Datasets : FitSelfTuning(X) \/ FitMAGIC(X)

\* A later fit of the same object.
Refit ==
    /\ nfits >= 1
    /\ nfits < MaxFits
    /\ \E X \in Datasets : FitSelfTuning(X) \/ FitMAGIC(X)

\* obj.normalization_dim = d between two fits (a public attribute).
SetNormalizationDim ==
    /\ obj.variant = "SelfTuning"
    /\ nfits >= 1
    /\ nfits < MaxFits
    /\ \E d \in Dims :
        /\ d # obj.normalization_dim
        /\ obj' = [obj EXCEPT !.normalization_dim = d]
    /\ UNCHANGED <<sigma_, log_normalization_, log_affinity_matrix,
                   affinity_matrix, status, lastC, lastDim, nfits, phateVars>>

PhateIdle ==
    /\ pc = "idle"
    /\ args = <<>>
    /\ self = <<>>
    /\ locals = <<>>
    /\ matcher = <<>>
    /\ fitState = "none"
    /\ n_iter = 0
    /\ lastLoss = "none"
    /\ distCalls = 0

InitAffinity ==
    /\ obj \in Configs
    /\ sigma_ = <<>>
    /\ log_normalization_ = <<>>
    /\ log_affinity_matrix = <<>>
    /\ affinity_matrix = <<>>
    /\ status = "none"
    /\ lastC = <<>>
    /\ lastDim = "none"
    /\ nfits = 0

Init == InitAffinity /\ PhateIdle

Next == Fit

Spec == Init /\ [][Next]_vars

NextRefit == Fit \/ Refit \/ SetNormalizationDim

SpecRefit == Init /\ [][NextRefit]_vars

\* ------------------------------------------------------------ PHATE
\* init_scaling in units of 1e-4.
SignatureInitScaling == 10000   \* init_scaling: float = 1.0
DocInitScaling == 1             \* "Scaling factor ... Default is 1e-4."

Backends == {"None", "keops", "faiss"}

\* The arguments of a PHATE(...) call; init_scaling is 0 when not given.
PhateArgs ==
    {a \in [backend : Backends, init_scaling_given : BOOLEAN,
            init_scaling : {0, 1, 5000}, max_iter : 0..MaxIterBound,
            check_interval : 1..MaxCheck] :
        a.init_scaling_given = (a.init_scaling # 0)}

\* if backend == "faiss"
NoBackendRejected(b) == FALSE
UnsupportedBackend(b) == b = "faiss"

\* The value bound to the parameter init_scaling.
init_scaling_param(a) ==
    IF a.init_scaling_given THEN a.init_scaling ELSE SignatureInitScaling

\* max_iter=max_iter in the call of AffinityMatcher.__init__
matcher_max_iter_off(a) == a.max_iter + 1
matcher_max_iter(a) == a.max_iter

New ==
    /\ pc = "idle"
    /\ \E a \in PhateArgs : args' = a
    /\ pc' = "check_backend"
    /\ UNCHANGED <<self, locals, matcher, fitState, n_iter, lastLoss,
                   distCalls, affVars>>

RaiseUnsupportedBackend ==
    /\ pc = "check_backend"
    /\ UnsupportedBackend(args.backend)
    /\ pc' = "raised"
    /\ UNCHANGED <<args, self, locals, matcher, fitState, n_iter, lastLoss,
                   distCalls, affVars>>

SetFields ==
    /\ pc = "check_backend"
    /\ ~UnsupportedBackend(args.backend)
    /\ self' = [n_neighbors |-> "n_neighbors", t |-> "t", eps |-> "eps"]
    /\ pc' = "affinity_in"
    /\ UNCHANGED <<args, locals, matcher, fitState, n_iter, lastLoss,
                   distCalls, affVars>>

BuildAffinityIn ==
    /\ pc = "affinity_in"
    /\ locals' = [affinity_in |-> [kind |-> "NegPotentialAffinity",
                                   backend |-> args.backend],
                  affinity_out |-> [kind |-> "none", backend |-> "None"],
                  loss_fn |-> "none"]
    /\ pc' = "affinity_out"
    /\ UNCHANGED <<args, self, matcher, fitState, n_iter, lastLoss,
                   distCalls, affVars>>

BuildAffinityOut ==
    /\ pc = "affinity_out"
    /\ locals' = [locals EXCEPT
                    !.affinity_out = [kind |-> "NegativeCostAffinity",
                                      backend |-> args.backend],
                    !.loss_fn = "l2_loss"]
    /\ pc' = "super_init"
    /\ UNCHANGED <<args, self, matcher, fitState, n_iter, lastLoss,
                   distCalls, affVars>>

SuperInit ==
    /\ pc = "super_init"
    /\ matcher' = [affinity_in |-> locals.affinity_in,
                   affinity_out |-> locals.affinity_out,
                   loss_fn |-> locals.loss_fn,
                   max_iter |-> matcher_max_iter(args),
                   init_scaling |-> init_scaling_param(args),
                   check_interval |-> args.check_interval,
                   backend |-> args.backend]
    /\ pc' = "constructed"
    /\ UNCHANGED <<args, self, locals, fitState, n_iter, lastLoss,
                   distCalls, affVars>>

\* AffinityMatcher.fit --------------------------------------------------
Terminal == {"Converged", "MaxIterReached", "Failed"}
Running == {"Initialized", "Fitting"}

\* Initialized: the embedding is set and the input affinity computed once.
FitStart ==
    /\ pc = "constructed"
    /\ fitState = "none"
    /\ fitState' = "Initialized"
    /\ n_iter' = 0
    /\ distCalls' = distCalls + 1
    /\ UNCHANGED <<pc, args, self, locals, matcher, lastLoss, affVars>>

\* One iteration: output affinity, loss, gradient step; every
\* check_interval iterations the convergence check.
Iterate ==
    /\ fitState \in Running
    /\ n_iter < matcher.max_iter
    /\ distCalls' = distCalls + 1
    /\ \E finite \in BOOLEAN, small_grad \in BOOLEAN :
        IF ~finite
        THEN /\ lastLoss' = "nonfinite"
             /\ fitState' = "Failed"
             /\ n_iter' = n_iter
        ELSE /\ lastLoss' = "finite"
             /\ n_iter' = n_iter + 1
             /\ fitState' =
                  IF (n_iter + 1) % matcher.check_interval = 0 /\ small_grad
                  THEN "Converged" ELSE "Fitting"
    /\ UNCHANGED <<pc, args, self, locals, matcher, affVars>>

\* max_iter is exhausted without convergence.
Exhaust ==
    /\ fitState \in Running
    /\ n_iter >= matcher.max_iter
    /\ fitState' = "MaxIterReached"
    /\ UNCHANGED <<pc, args, self, locals, matcher, n_iter, lastLoss,
                   distCalls, affVars>>

AffinityIdle ==
    /\ obj = <<>>
    /\ sigma_ = <<>>
    /\ log_normalization_ = <<>>
    /\ log_affinity_matrix = <<>>
    /\ affinity_matrix = <<>>
    /\ status = "none"
    /\ lastC = <<>>
    /\ lastDim = "none"
    /\ nfits = 0

InitPHATE == AffinityIdle /\ PhateIdle

NextPHATE ==
    \/ New
    \/ RaiseUnsupportedBackend
    \/ SetFields
    \/ BuildAffinityIn
    \/ BuildAffinityOut
    \/ SuperInit
    \/ FitStart
    \/ Iterate
    \/ Exhaust

\* The fit is a synchronous loop of blocking calls: once started, its next
\* step is taken.
SpecPHATE == InitPHATE /\ [][NextPHATE]_vars /\ WF_vars(Iterate \/ Exhaust)

\* -------------------------------------------------------- properties
Fitted == status = "ok"

\* v is the K-th smallest value (1-indexed, duplicates counted) of row:
\* fewer than K entries lie strictly below v, at least K at or below it.
IsKthSmallest(v, row, K) ==
    /\ \E j \in DOMAIN row : row[j] = v
    /\ Cardinality({j \in DOMAIN row : Lt(row[j], v)}) < K
    /\ Cardinality({j \in DOMAIN row : Leq(row[j], v)}) >= K

\* C1: after a fit with 1 <= K <= n-1, sigma_[i] is the K-th smallest value
\* of row i of the distance matrix, for both affinities.
C1_SigmaIsKthSmallest ==
    (Fitted /\ obj.K >= 1 /\ obj.K <= N - 1) =>
        \A i \in Idx : IsKthSmallest(sigma_[i], lastC[i], obj.K)

\* a fit with K = 2 on a row that holds a value twice
C1_Witness ==
    /\ Fitted
    /\ obj.K = 2
    /\ \E i, j, l \in Idx : j # l /\ lastC[i][j] = lastC[i][l]
    /\ \E i \in Idx : IsPos(sigma_[i])

C4_RowStochastic ==
    (Fitted /\ obj.variant = "MAGIC" /\ \A i \in Idx : IsPos(sigma_[i])) =>
        \A i \in Idx : SumSeq(affinity_matrix[i]) = One

\* a MAGIC result with positive bandwidths that is not symmetric
C4_Witness ==
    /\ Fitted
    /\ obj.variant = "MAGIC"
    /\ \A i \in Idx : IsPos(sigma_[i])
    /\ \E i, j \in Idx : affinity_matrix[i][j] # affinity_matrix[j][i]

\* The linear-domain affinity of the last fit.
P(i, j) ==
    IF obj.variant = "MAGIC" THEN affinity_matrix[i][j]
    ELSE LExp(log_affinity_matrix[i][j])

TotalSum == SumSeq([i \in Idx |-> SumSeq([j \in Idx |-> P(i, j)])])

\* C5: with normalization_dim = (0, 1) SelfTuningAffinity's result sums to
\* 1 over the whole matrix.
C5_JointSumsToOne ==
    (Fitted /\ obj.variant = "SelfTuning" /\ lastDim = "joint")
        => TotalSum = One

\* C6: with zero_diag the diagonal of the fitted affinity is zero.
C6_ZeroDiagonal ==
    (Fitted /\ obj.zero_diag) => \A i \in Idx : P(i, i) = Zero

\* C7: a fit never completes with a zero bandwidth.
C7_ZeroBandwidthRaises ==
    Fitted => \A i \in Idx : ~IsZero(sigma_[i])

\* With every bandwidth positive the joint normalisation does sum to one
\* and the diagonal is zero: the two statements above fail through zero
\* bandwidths only.
JointSumsToOne_PositiveBandwidths ==
    (Fitted /\ obj.variant = "SelfTuning" /\ lastDim = "joint"
        /\ \A i \in Idx : IsPos(sigma_[i])) => TotalSum = One

ZeroDiagonal_PositiveBandwidths ==
    (Fitted /\ obj.zero_diag /\ \A i \in Idx : IsPos(sigma_[i]))
        => \A i \in Idx : P(i, i) = Zero

\* C10: after any sequence of fits of a SelfTuningAffinity the fitted
\* attributes describe the most recent fit only: sigma_ is that fit's
\* bandwidth and log_normalization_ is the term that fit subtracted (none
\* when that fit ran with normalization_dim = None).
C10_AttributesOfLastFit ==
    (Fitted /\ obj.variant = "SelfTuning") =>
        /\ \A i \in Idx : IsKthSmallest(sigma_[i], lastC[i], obj.K)
        /\ log_normalization_ =
              IF lastDim = "none" THEN <<>>
              ELSE logsumexp_red(_log_SelfTuning(lastC, sigma_), lastDim)

\* C2: with backend "faiss" the constructor raises before any other step
\* (no attribute, no affinity object, no AffinityMatcher initializer, no
\* distance computation); with backend None or "keops" it does not raise.
C2_FaissRejectedFirst ==
    /\ (pc # "idle" /\ args.backend = "faiss") =>
          /\ pc \in {"check_backend", "raised"}
          /\ self = <<>>
          /\ locals = <<>>
          /\ matcher = <<>>
          /\ fitState = "none"
          /\ distCalls = 0
    /\ (pc = "raised") => args.backend = "faiss"

\* the constructor has raised on backend "faiss"
C2_Witness == pc = "raised" /\ args.backend = "faiss"

TerminalIsFinal ==
    fitState \in Terminal => (fitState' = fitState /\ n_iter' = n_iter)

\* C8: a fit of the embedding ends in exactly one of Converged,
\* MaxIterReached, Failed after at most max_iter iterations; in
\* MaxIterReached only with max_iter iterations made, in Failed as soon as
\* a loss or gradient is not finite.
C8_FitTerminates ==
    /\ (fitState = "Initialized") ~> (fitState \in Terminal)
    /\ [](fitState # "none" => n_iter <= args.max_iter)
    /\ [](fitState = "MaxIterReached" => n_iter = args.max_iter)
    /\ [](lastLoss = "nonfinite" <=> fitState = "Failed")
    /\ [][TerminalIsFinal]_vars

\* max_iter >= 2 iterations made, each followed by a failed convergence check
C8_Witness ==
    /\ fitState = "MaxIterReached"
    /\ n_iter = args.max_iter
    /\ args.max_iter >= 2
    /\ args.check_interval = 1

\* C9: a PHATE built without init_scaling hands the documented default,
\* 1e-4, to AffinityMatcher.
C9_DefaultInitScaling ==
    (pc = "constructed" /\ ~args.init_scaling_given) =>
        matcher.init_scaling = DocInitScaling

====
